---- MODULE Spec2Model ----
(***************************************************************************)
(* minispell: a driver that reads a dictionary word list, inserts it into  *)
(* a TreeStringSet (an unbalanced binary search tree of strings) in one of *)
(* three orders, prints the median word, and looks up the words of a       *)
(* second file.  Source: src/minispell.cpp.  TreeStringSet itself          *)
(* (treestringset.hpp) is not part of the sources at hand; its operations  *)
(* are written from the design document and marked as such.                *)
(*                                                                         *)
(* Strings are sequences of one-character strings, so that a word, a file  *)
(* content and a command-line argument can be scanned character by         *)
(* character as the code does.                                             *)
(***************************************************************************)
EXTENDS Integers, Sequences, FiniteSets

VARIABLES
    pc,             \* position in main: "args", "read_dict", "insert", "stats",
                    \* "read_check", "lookup", and "exit" once the process has ended;
                    \* "read", "read_done" and "probed" are the positions of the
                    \* clients of readWords and of the tree's iteration
    args,           \* std::list<std::string> args (main:144), the part not yet popped
    insertionOrder, \* enum { AS_READ, SHUFFLED, BALANCED } (main:136)
    dictFile,       \* main:137
    fileToCheck,    \* main:138
    maxDictWords,   \* main:140
    maxCheckWords,  \* main:141
    words,          \* std::vector<std::string> words (main:198)
    dict,           \* TreeStringSet dict (main:205): [root, count]
    median,         \* the outcome of *iter (main:227)
    inDict,         \* main:233
    wordsRead,      \* words.size() as printed at main:248
    exitStatus,     \* the process exit status; -1 while main is running
    err,            \* what was written to std::cerr on the way out, "" for nothing
    file,           \* history: the content of the file readWords opened last
    maxwords,       \* history: the maxwords readWords was called with last
    before,         \* history: the vector as it was when readWords was called last
    given,          \* history: the vector handed to the insertion strategy
    calls,          \* history: the indices of the vector whose word went to dict.insert
    probeK,         \* the position asked of the iterator by Probe
    probeElem,      \* the outcome of that request
    iterated        \* the keys the iteration from begin() to end() produced

vars == <<pc, args, insertionOrder, dictFile, fileToCheck, maxDictWords, maxCheckWords,
          words, dict, median, inDict, wordsRead, exitStatus, err, file, maxwords,
          before, given, calls, probeK, probeElem, iterated>>

----
\* Bounds of the model.

\* Number of words of WordList the insertion specification draws vectors from.
NumWords == 4
\* Longest vector handed to insertAsRead and insertBalanced there.
MaxVec == 5
\* Longest vector handed to insertShuffled there (every permutation is tried).
MaxShuffle == 4
\* Longest file content, in characters, of the readWords specification.
MaxFileLen == 5
\* Largest maxwords of the readWords specification (besides SIZE_MAX).
MaxWordsArg == 3
\* Longest command line (argc - 1) of the driver specification.
MaxArgs == 2
\* Longest word list of a file of the driver specification.
MaxFileWords == 3
\* Width of size_t in the model; the code's is 64.  Only the wrap-around of a
\* negated value and the out_of_range threshold of std::stoul depend on it.
SizeBits == 4

----
\* Characters and strings.

Range(s) == {s[i] : i \in 1..Len(s)}

RECURSIVE SeqsUpTo(_, _)
\* All sequences over S of length at most n.
SeqsUpTo(S, n) ==
    IF n = 0 THEN {<<>>}
    ELSE LET shorter == SeqsUpTo(S, n - 1)
         IN  shorter \cup {Append(s, x) : s \in {t \in shorter : Len(t) = n - 1}, x \in S}

\* The character codes the comparisons of std::string rest on.
Code(c) ==
    CASE c = " " -> 32
      [] c = "+" -> 43
      [] c = "-" -> 45
      [] c = "0" -> 48
      [] c = "1" -> 49
      [] c = "2" -> 50
      [] c = "9" -> 57
      [] c = "a" -> 97
      [] c = "b" -> 98
      [] c = "c" -> 99
      [] c = "d" -> 100
      [] c = "x" -> 120
      [] OTHER   -> 127

RECURSIVE StrLess(_, _)
\* operator< of std::string: lexicographic, by character code; a proper prefix is less.
StrLess(a, b) ==
    IF b = <<>> THEN FALSE
    ELSE IF a = <<>> THEN TRUE
    ELSE IF Code(Head(a)) < Code(Head(b)) THEN TRUE
    ELSE IF Code(Head(a)) > Code(Head(b)) THEN FALSE
    ELSE StrLess(Tail(a), Tail(b))

\* The words the vectors are made of, in no particular order.
WordList ==
    << <<"b">>, <<"a">>, <<"a", "b">>, <<"c">>, <<"b", "a">>, <<"d">>, <<"c", "a">>, <<"a", "a">> >>

Words == {WordList[i] : i \in 1..(IF NumWords < Len(WordList) THEN NumWords ELSE Len(WordList))}

----
\* TreeStringSet, from the design document (sections 3 and 4.1).
\* A tree is <<>> (absent) or <<key, left, right>>.

EmptySet == [root |-> <<>>, count |-> 0]

RECURSIVE insertHelperDup(_, _)
\* insertHelper without the "already present" case: an equal key goes right.
insertHelperDup(t, w) ==
    IF t = <<>> THEN [tree |-> <<w, <<>>, <<>>>>, created |-> 1]
    ELSE IF StrLess(w, t[1])
         THEN LET r == insertHelperDup(t[2], w)
              IN  [tree |-> <<t[1], r.tree, t[3]>>, created |-> r.created]
         ELSE LET r == insertHelperDup(t[3], w)
              IN  [tree |-> <<t[1], t[2], r.tree>>, created |-> r.created]

RECURSIVE insertHelper(_, _)
\* The descent of insert: the new subtree and the number of nodes created (0 or 1).
insertHelper(t, w) ==
    IF t = <<>> THEN [tree |-> <<w, <<>>, <<>>>>, created |-> 1]
    ELSE IF StrLess(w, t[1])
         THEN LET r == insertHelper(t[2], w)
              IN  [tree |-> <<t[1], r.tree, t[3]>>, created |-> r.created]
    ELSE IF StrLess(t[1], w)
         THEN LET r == insertHelper(t[3], w)
              IN  [tree |-> <<t[1], t[2], r.tree>>, created |-> r.created]
    ELSE [tree |-> t, created |-> 0]

\* dict.insert(w)
insert(d, w) ==
    LET r == insertHelper(d.root, w)
    IN  [root |-> r.tree, count |-> d.count + r.created]

RECURSIVE existsHelper(_, _)
existsHelper(t, w) ==
    IF t = <<>> THEN FALSE
    ELSE IF StrLess(w, t[1]) THEN existsHelper(t[2], w)
    ELSE IF StrLess(t[1], w) THEN existsHelper(t[3], w)
    ELSE TRUE

\* dict.exists(w)
exists(d, w) == existsHelper(d.root, w)

\* dict.size()
size(d) == d.count

RECURSIVE heightHelper(_)
heightHelper(t) ==
    IF t = <<>> THEN 0
    ELSE LET l == heightHelper(t[2])
             r == heightHelper(t[3])
         IN  1 + (IF l > r THEN l ELSE r)

\* dict.height()
height(d) == heightHelper(d.root)

RECURSIVE inorder(_)
\* The keys in the order the iteration from begin() to end() visits them.
inorder(t) ==
    IF t = <<>> THEN <<>>
    ELSE inorder(t[2]) \o <<t[1]>> \o inorder(t[3])

\* *it for the iterator k steps after dict.begin(): the key there, or the
\* "position out of range" failure when there is no such position.
elementAt(d, k) ==
    LET keys == inorder(d.root)
    IN  IF k < Len(keys) THEN [ok |-> TRUE, value |-> keys[k + 1]]
        ELSE [ok |-> FALSE, value |-> <<>>]

----
\* The insertion strategies (src/minispell.cpp:47-103).  A strategy's work is
\* threaded through a record [dict, calls]: the tree, and the indices of the
\* vector whose word was handed to dict.insert, in call order.

RECURSIVE insertEach(_, _, _)
\* for (const auto& word : words) dict.insert(word);  from 0-based index i on
insertEach(st, ws, i) ==
    IF i >= Len(ws) THEN st
    ELSE insertEach([dict  |-> insert(st.dict, ws[i + 1]),
                     calls |-> Append(st.calls, i)], ws, i + 1)

\* insertAsRead with a loop that stops one element early.
insertAsReadSkipLast(d, ws) ==
    LET n  == IF Len(ws) = 0 THEN 0 ELSE Len(ws) - 1
        st == insertEach([dict |-> d, calls |-> <<>>], SubSeq(ws, 1, n), 0)
    IN  [dict |-> st.dict, words |-> <<>>, calls |-> st.calls]

\* insertAsRead without words.clear().
insertAsReadNoClear(d, ws) ==
    LET st == insertEach([dict |-> d, calls |-> <<>>], ws, 0)
    IN  [dict |-> st.dict, words |-> ws, calls |-> st.calls]

insertAsRead(d, ws) ==
    LET st == insertEach([dict |-> d, calls |-> <<>>], ws, 0)
    IN  [dict |-> st.dict, words |-> <<>>, calls |-> st.calls]

RECURSIVE Shuffles(_)
\* Every order std::shuffle can leave the vector in.
Shuffles(ws) ==
    IF ws = <<>> THEN {<<>>}
    ELSE UNION {{<<ws[i]>> \o r :
                    r \in Shuffles(SubSeq(ws, 1, i - 1) \o SubSeq(ws, i + 1, Len(ws)))} :
                i \in 1..Len(ws)}

\* insertShuffled, for the order `shuffled` the shuffle produced.
insertShuffled(d, shuffled) == insertAsRead(d, shuffled)

\* mid == start: the first element of the range instead of the middle one.
MidAtStart(start, pastEnd) == start

\* size_t size = pastEnd - start; size_t mid = start + size / 2;
Mid(start, pastEnd) == start + (pastEnd - start) \div 2

RECURSIVE insertBalancedHelper(_, _, _, _)
insertBalancedHelper(st, ws, start, pastEnd) ==
    IF start >= pastEnd THEN st
    ELSE LET mid == Mid(start, pastEnd)
             s1  == [dict  |-> insert(st.dict, ws[mid + 1]),
                     calls |-> Append(st.calls, mid)]
             s2  == insertBalancedHelper(s1, ws, start, mid)
         IN  insertBalancedHelper(s2, ws, mid + 1, pastEnd)

RECURSIVE SortInsert(_, _)
\* w put into the sorted sequence s, after the elements not greater than it.
SortInsert(s, w) ==
    IF s = <<>> THEN <<w>>
    ELSE IF StrLess(w, Head(s)) THEN <<w>> \o s
    ELSE <<Head(s)>> \o SortInsert(Tail(s), w)

RECURSIVE Sort(_)
\* std::sort(words.begin(), words.end()): ascending by operator<.
Sort(ws) == IF ws = <<>> THEN <<>> ELSE SortInsert(Sort(Tail(ws)), Head(ws))

insertBalanced(d, ws) ==
    LET sorted == Sort(ws)
        st     == insertBalancedHelper([dict |-> d, calls |-> <<>>], sorted, 0, Len(sorted))
    IN  [dict |-> st.dict, words |-> <<>>, calls |-> st.calls]

----
\* The steps of main from the insertion on (src/minispell.cpp:201-227).

Strategies == {"AS_READ", "SHUFFLED", "BALANCED"}

NoElem == [ok |-> FALSE, value |-> <<>>]

\* What a strategy leaves behind, and main's move to the statistics.
Inserted(r) ==
    /\ dict' = r.dict
    /\ words' = r.words
    /\ calls' = r.calls
    /\ given' = words
    /\ pc' = "stats"
    /\ UNCHANGED <<args, insertionOrder, dictFile, fileToCheck, maxDictWords,
                   maxCheckWords, median, inDict, wordsRead, exitStatus, err, file,
                   maxwords, before, probeK, probeElem, iterated>>

InsertAsRead ==
    /\ pc = "insert"
    /\ insertionOrder = "AS_READ"
    /\ Inserted(insertAsRead(dict, words))

InsertShuffled ==
    /\ pc = "insert"
    /\ insertionOrder = "SHUFFLED"
    /\ \E shuffled \in Shuffles(words) : Inserted(insertShuffled(dict, shuffled))

InsertBalanced ==
    /\ pc = "insert"
    /\ insertionOrder = "BALANCED"
    /\ Inserted(insertBalanced(dict, words))

\* (size + 1) / 2 instead of size / 2.
MedianIndexUp(d) == (size(d) + 1) \div 2

\* dict.size() / 2
MedianIndex(d) == size(d) \div 2

\* dict.showStatistics(std::cout), which changes nothing, and then
\* auto iter = dict.begin(); std::advance(iter, dict.size() / 2); ... *iter
\* main has no handler: a failure of the request ends the process (std::terminate).
Median ==
    /\ pc = "stats"
    /\ LET e == elementAt(dict, MedianIndex(dict))
       IN  IF e.ok
           THEN /\ median' = e
                /\ pc' = "read_check"
                /\ UNCHANGED <<exitStatus, err>>
           ELSE /\ median' = e
                /\ pc' = "exit"
                /\ exitStatus' = 134
                /\ err' = "position out of range"
    /\ UNCHANGED <<args, insertionOrder, dictFile, fileToCheck, maxDictWords,
                   maxCheckWords, words, dict, inDict, wordsRead, file, maxwords,
                   before, given, calls, probeK, probeElem, iterated>>

\* A client of the tree that walks it from begin() to end() and asks for the
\* element k positions after begin(), k = size() being the first position
\* out of range.
Probe ==
    /\ pc = "stats"
    /\ \E k \in 0..size(dict) :
         /\ probeK' = k
         /\ probeElem' = elementAt(dict, k)
    /\ iterated' = inorder(dict.root)
    /\ pc' = "probed"
    /\ UNCHANGED <<args, insertionOrder, dictFile, fileToCheck, maxDictWords,
                   maxCheckWords, words, dict, median, inDict, wordsRead, exitStatus,
                   err, file, maxwords, before, given, calls>>

\* size_t's largest value, std::numeric_limits<size_t>::max().
SizeMax == 2 ^ SizeBits - 1

DefaultFile == <<"d">>

\* The state main starts from, up to the command line, the strategy and the vector.
Fresh ==
    /\ dictFile = DefaultFile
    /\ fileToCheck = DefaultFile
    /\ maxDictWords = SizeMax
    /\ maxCheckWords = SizeMax
    /\ dict = EmptySet
    /\ median = NoElem
    /\ inDict = 0
    /\ wordsRead = 0
    /\ exitStatus = -1
    /\ err = ""
    /\ given = <<>>
    /\ calls = <<>>
    /\ probeK = 0
    /\ probeElem = NoElem
    /\ iterated = <<>>

\* The insertion strategies on their own: any vector, any strategy, an empty tree.
InitInsert ==
    /\ pc = "insert"
    /\ args = <<>>
    /\ words \in SeqsUpTo(Words, MaxVec)
    /\ \E o \in Strategies :
         /\ o = "SHUFFLED" => Len(words) <= MaxShuffle
         /\ insertionOrder = o
    /\ file = <<>>
    /\ maxwords = 0
    /\ before = <<>>
    /\ Fresh

NextInsert ==
    \/ InsertAsRead
    \/ InsertShuffled
    \/ InsertBalanced
    \/ Median
    \/ Probe

SpecInsert == InitInsert /\ [][NextInsert]_vars

----
\* readWords (src/minispell.cpp:21-45).  A stream is the content of the file
\* and the number of characters consumed so far.

IsSpace(c) == c = " "

RECURSIVE SkipSpace(_, _)
\* The position after the whitespace that starts at position p.
SkipSpace(content, p) ==
    IF p < Len(content) /\ IsSpace(content[p + 1]) THEN SkipSpace(content, p + 1) ELSE p

RECURSIVE SkipWord(_, _)
\* The position after the characters other than whitespace that start at position p.
SkipWord(content, p) ==
    IF p < Len(content) /\ ~IsSpace(content[p + 1]) THEN SkipWord(content, p + 1) ELSE p

\* in >> word; followed by in.good().  Leading whitespace is skipped; if the end
\* of the file comes first nothing is extracted (eofbit and failbit).  Else the
\* characters up to the next whitespace or the end of the file are the word,
\* and reaching the end of the file sets eofbit, so that good() is false
\* although a word was extracted.
Extract(content, p) ==
    LET p1 == SkipSpace(content, p)
        p2 == SkipWord(content, p1)
    IN  IF p1 >= Len(content)
        THEN [good |-> FALSE, word |-> <<>>, pos |-> p1]
        ELSE [good |-> p2 < Len(content), word |-> SubSeq(content, p1 + 1, p2), pos |-> p2]

RECURSIVE readLoop(_, _, _, _, _)
\* for (size_t i = 0; i < maxwords; ++i) { in >> word; if (!in.good()) break;
\*                                         words.push_back(word); }
readLoop(ws, content, p, i, max) ==
    IF i >= max THEN ws
    ELSE LET r == Extract(content, p)
         IN  IF ~r.good THEN ws
             ELSE readLoop(Append(ws, r.word), content, r.pos, i + 1, max)

\* readWords(words, filename, maxwords) for a file that opens, with this content.
readWords(ws, content, max) == readLoop(ws, content, 0, 0, max)

FileChars == {" ", "a", "b"}

\* readWords on its own: any content, any limit, an empty vector or one that
\* holds a word already.
InitRead ==
    /\ pc = "read"
    /\ args = <<>>
    /\ insertionOrder = "AS_READ"
    /\ file \in SeqsUpTo(FileChars, MaxFileLen)
    /\ maxwords \in (0..MaxWordsArg) \cup {SizeMax}
    /\ words \in {<<>>, <<WordList[1]>>}
    /\ before = <<>>
    /\ Fresh

ReadWords ==
    /\ pc = "read"
    /\ words' = readWords(words, file, maxwords)
    /\ before' = words
    /\ pc' = "read_done"
    /\ UNCHANGED <<args, insertionOrder, dictFile, fileToCheck, maxDictWords,
                   maxCheckWords, dict, median, inDict, wordsRead, exitStatus, err,
                   file, maxwords, given, calls, probeK, probeElem, iterated>>

SpecRead == InitRead /\ [][ReadWords]_vars

\* The whitespace-delimited words of a content, in order: the maximal runs of
\* characters other than whitespace.
WordStarts(content) ==
    {i \in 1..Len(content) :
        /\ ~IsSpace(content[i])
        /\ i = 1 \/ IsSpace(content[i - 1])}

WordAt(content, i) ==
    LET ends == {j \in i..Len(content) :
                    /\ \A k \in i..j : ~IsSpace(content[k])
                    /\ j = Len(content) \/ IsSpace(content[j + 1])}
    IN  SubSeq(content, i, CHOOSE j \in ends : TRUE)

RECURSIVE WordsFrom(_, _)
WordsFrom(content, starts) ==
    IF starts = {} THEN <<>>
    ELSE LET i == CHOOSE x \in starts : \A y \in starts : x <= y
         IN  <<WordAt(content, i)>> \o WordsFrom(content, starts \ {i})

WordsOf(content) == WordsFrom(content, WordStarts(content))

Min(a, b) == IF a < b THEN a ELSE b

\* C8: readWords appends the first min(maxwords, N) words of the file, in file
\* order, to what the vector held, whether or not whitespace follows the last
\* word of the file.
C8_ReadsFirstWords ==
    pc = "read_done" =>
        LET all == WordsOf(file)
        IN  words = before \o SubSeq(all, 1, Min(maxwords, Len(all)))

\* The same, for the files in which whitespace follows the last word.
C8_ReadsFirstWordsTerminated ==
    (pc = "read_done" /\ (file = <<>> \/ IsSpace(file[Len(file)]))) =>
        LET all == WordsOf(file)
        IN  words = before \o SubSeq(all, 1, Min(maxwords, Len(all)))

----
\* main, from the command line to the reading of the dictionary
\* (src/minispell.cpp:134-199), and from the median on (src/minispell.cpp:229-251).

\* The spellings of each option (main:147-178).
OptF == {<<"-", "f">>,
          <<"-", "-", "f", "i", "l", "e", "-", "o", "r", "d", "e", "r">>}
OptS == {<<"-", "s">>,
          <<"-", "-", "s", "h", "u", "f", "f", "l", "e", "d", "-", "o", "r", "d", "e", "r">>}
OptB == {<<"-", "b">>,
          <<"-", "-", "b", "a", "l", "a", "n", "c", "e", "d", "-", "o", "r", "d", "e", "r">>}
OptD == {<<"-", "d">>,
          <<"-", "-", "d", "i", "c", "t", "-", "f", "i", "l", "e">>}
OptN == {<<"-", "n">>,
          <<"-", "-", "n", "u", "m", "-", "d", "i", "c", "t", "-", "w", "o", "r", "d", "s">>}
OptM == {<<"-", "m">>,
          <<"-", "-", "n", "u", "m", "-", "c", "h", "e", "c", "k", "-", "w", "o", "r", "d", "s">>}
OptH == {<<"-", "h">>,
          <<"-", "-", "h", "e", "l", "p">>}

IsDigit(c) == c \in {"0", "1", "2", "9"}

DigitValue(c) == CASE c = "0" -> 0 [] c = "1" -> 1 [] c = "2" -> 2 [] c = "9" -> 9

RECURSIVE SkipDigits(_, _)
SkipDigits(s, p) ==
    IF p < Len(s) /\ IsDigit(s[p + 1]) THEN SkipDigits(s, p + 1) ELSE p

RECURSIVE Magnitude(_, _, _, _)
\* The value of the digits of s from position p up to q, added to acc; a value
\* beyond SizeMax is reported as SizeMax + 1.
Magnitude(s, p, q, acc) ==
    IF p >= q THEN acc
    ELSE LET v == acc * 10 + DigitValue(s[p + 1])
         IN  Magnitude(s, p + 1, q, IF v > SizeMax THEN SizeMax + 1 ELSE v)

\* std::stoul(str) with base 10 and no position argument (main:168): leading
\* whitespace and one sign are skipped, the digits that follow are the value and
\* whatever follows them is ignored; no digit there is std::invalid_argument, a
\* value beyond the largest unsigned long is std::out_of_range, and the value
\* after a '-' is negated in unsigned arithmetic.
stoul(s) ==
    LET p0  == SkipSpace(s, 0)
        neg == p0 < Len(s) /\ s[p0 + 1] = "-"
        p1  == IF p0 < Len(s) /\ s[p0 + 1] \in {"+", "-"} THEN p0 + 1 ELSE p0
        p2  == SkipDigits(s, p1)
        v   == Magnitude(s, p1, p2, 0)
    IN  IF p2 = p1 THEN [kind |-> "invalid_argument", value |-> 0]
        ELSE IF v > SizeMax THEN [kind |-> "out_of_range", value |-> 0]
        ELSE [kind |-> "ok", value |-> IF neg THEN (SizeMax + 1 - v) % (SizeMax + 1) ELSE v]

\* return status; out of main, with what went to std::cerr just before.
Return(status, message) ==
    /\ pc' = "exit"
    /\ exitStatus' = status
    /\ err' = message

\* An exception nothing catches leaves main: std::terminate, the process aborts.
Terminate(what) ==
    /\ pc' = "exit"
    /\ exitStatus' = 134
    /\ err' = what

\* One turn of the option loop (main:145-187).  `option` is a reference to
\* args.front(); in the -n/-m branch the pop_front() of main:162 destroys the
\* string it refers to, so what main:164, 169 and 175 read through it afterwards
\* is not defined: the comparison of main:169 can come out either way, and the
\* option named in the message of main:164 and 175 can be any text.
ParseOption ==
    /\ pc = "args"
    /\ args # <<>>
    /\ Head(args) # <<>>
    /\ Head(args)[1] = "-"
    /\ LET option == Head(args)
           rest   == Tail(args)
       IN  \/ /\ option \in OptF
              /\ insertionOrder' = "AS_READ"
              /\ args' = rest
              /\ UNCHANGED <<pc, dictFile, maxDictWords, maxCheckWords, exitStatus, err>>
           \/ /\ option \in OptS
              /\ insertionOrder' = "SHUFFLED"
              /\ args' = rest
              /\ UNCHANGED <<pc, dictFile, maxDictWords, maxCheckWords, exitStatus, err>>
           \/ /\ option \in OptB
              /\ insertionOrder' = "BALANCED"
              /\ args' = rest
              /\ UNCHANGED <<pc, dictFile, maxDictWords, maxCheckWords, exitStatus, err>>
           \/ /\ option \in OptD
              /\ rest = <<>>
              /\ args' = rest
              /\ Return(1, "-d expects a filename")
              /\ UNCHANGED <<insertionOrder, dictFile, maxDictWords, maxCheckWords>>
           \/ /\ option \in OptD
              /\ rest # <<>>
              /\ dictFile' = Head(rest)
              /\ args' = Tail(rest)
              /\ UNCHANGED <<pc, insertionOrder, maxDictWords, maxCheckWords, exitStatus, err>>
           \/ /\ option \in OptN \cup OptM
              /\ rest = <<>>
              /\ args' = rest
              /\ Return(1, "expects a number")
              /\ UNCHANGED <<insertionOrder, dictFile, maxDictWords, maxCheckWords>>
           \/ /\ option \in OptN \cup OptM
              /\ rest # <<>>
              /\ stoul(Head(rest)).kind = "ok"
              /\ \E isDict \in BOOLEAN :
                   IF isDict
                   THEN maxDictWords' = stoul(Head(rest)).value /\ UNCHANGED maxCheckWords
                   ELSE maxCheckWords' = stoul(Head(rest)).value /\ UNCHANGED maxDictWords
              /\ args' = Tail(rest)
              /\ UNCHANGED <<pc, insertionOrder, dictFile, exitStatus, err>>
           \/ /\ option \in OptN \cup OptM
              /\ rest # <<>>
              /\ stoul(Head(rest)).kind = "invalid_argument"
              /\ args' = rest
              /\ Return(1, "expects a number")
              /\ UNCHANGED <<insertionOrder, dictFile, maxDictWords, maxCheckWords>>
           \/ /\ option \in OptN \cup OptM
              /\ rest # <<>>
              /\ stoul(Head(rest)).kind = "out_of_range"
              /\ args' = rest
              /\ Terminate("std::out_of_range")
              /\ UNCHANGED <<insertionOrder, dictFile, maxDictWords, maxCheckWords>>
           \/ /\ option \in OptH
              /\ args' = args
              /\ Return(0, "usage")
              /\ UNCHANGED <<insertionOrder, dictFile, maxDictWords, maxCheckWords>>
           \/ /\ option \notin UNION {OptF, OptS, OptB, OptD, OptN, OptM, OptH}
              /\ args' = args
              /\ Return(1, "Unknown option")
              /\ UNCHANGED <<insertionOrder, dictFile, maxDictWords, maxCheckWords>>
    /\ UNCHANGED <<fileToCheck, words, dict, median, inDict, wordsRead, file, maxwords,
                   before, given, calls, probeK, probeElem, iterated>>

\* The end of the option loop and the file to check (main:188-195).
ParsePositional ==
    /\ pc = "args"
    /\ IF args = <<>> THEN TRUE
       ELSE IF Head(args) = <<>> THEN TRUE
       ELSE Head(args)[1] # "-"
    /\ \/ /\ args = <<>>
          /\ pc' = "read_dict"
          /\ UNCHANGED <<args, fileToCheck, exitStatus, err>>
       \/ /\ Len(args) = 1
          /\ fileToCheck' = Head(args)
          /\ args' = Tail(args)
          /\ pc' = "read_dict"
          /\ UNCHANGED <<exitStatus, err>>
       \/ /\ Len(args) > 1
          /\ fileToCheck' = Head(args)
          /\ args' = Tail(args)
          /\ Return(1, "extra argument(s)")
    /\ UNCHANGED <<insertionOrder, dictFile, maxDictWords, maxCheckWords, words, dict,
                   median, inDict, wordsRead, file, maxwords, before, given, calls,
                   probeK, probeElem, iterated>>

RECURSIVE Join(_)
\* The words of ws, one space between two of them.
Join(ws) ==
    IF ws = <<>> THEN <<>>
    ELSE IF Len(ws) = 1 THEN ws[1]
    ELSE ws[1] \o <<" ">> \o Join(Tail(ws))

\* The words the files of the driver are made of.
FileWords == {<<"b">>, <<"a">>}

\* The files the driver is run on: word lists, with or without whitespace after
\* the last word.
DriverFiles ==
    {Join(ws) \o sep : ws \in SeqsUpTo(FileWords, MaxFileWords), sep \in {<<>>, <<" ">>}}

\* readWords(words, dictFile, maxDictWords) (main:198-199).  A file that cannot be
\* opened makes readWords throw std::system_error, which main does not catch.
ReadDict ==
    /\ pc = "read_dict"
    /\ \/ /\ Terminate("Error reading")
          /\ UNCHANGED <<words, file, maxwords, before>>
       \/ /\ \E content \in DriverFiles :
               /\ words' = readWords(words, content, maxDictWords)
               /\ file' = content
          /\ maxwords' = maxDictWords
          /\ before' = words
          /\ pc' = "insert"
          /\ UNCHANGED <<exitStatus, err>>
    /\ UNCHANGED <<args, insertionOrder, dictFile, fileToCheck, maxDictWords,
                   maxCheckWords, dict, median, inDict, wordsRead, given, calls,
                   probeK, probeElem, iterated>>

\* readWords(words, fileToCheck, maxCheckWords) (main:231).
ReadCheck ==
    /\ pc = "read_check"
    /\ \/ /\ Terminate("Error reading")
          /\ UNCHANGED <<words, file, maxwords, before>>
       \/ /\ \E content \in DriverFiles :
               /\ words' = readWords(words, content, maxCheckWords)
               /\ file' = content
          /\ maxwords' = maxCheckWords
          /\ before' = words
          /\ pc' = "lookup"
          /\ UNCHANGED <<exitStatus, err>>
    /\ UNCHANGED <<args, insertionOrder, dictFile, fileToCheck, maxDictWords,
                   maxCheckWords, dict, median, inDict, wordsRead, given, calls,
                   probeK, probeElem, iterated>>

RECURSIVE countFound(_, _)
\* for (const auto& word : words) if (dict.exists(word)) ++inDict;
countFound(d, ws) ==
    IF ws = <<>> THEN 0
    ELSE (IF exists(d, Head(ws)) THEN 1 ELSE 0) + countFound(d, Tail(ws))

\* The lookups and the last report (main:232-251).
Lookup ==
    /\ pc = "lookup"
    /\ inDict' = countFound(dict, words)
    /\ wordsRead' = Len(words)
    /\ pc' = "done"
    /\ exitStatus' = 0
    /\ UNCHANGED <<args, insertionOrder, dictFile, fileToCheck, maxDictWords,
                   maxCheckWords, words, dict, median, err, file, maxwords, before,
                   given, calls, probeK, probeElem, iterated>>

\* The command-line arguments the driver is run with.
ArgTokens ==
    {<<"-", "f">>, <<"-", "s">>, <<"-", "b">>, <<"-", "d">>, <<"-", "n">>, <<"-", "m">>,
     <<"-", "h">>, <<"-", "2">>, <<"1">>, <<"2", "x">>, <<"x">>, <<"9", "9">>,
     <<"-", "-", "n", "u", "m", "-", "c", "h", "e", "c", "k", "-", "w", "o", "r", "d", "s">>}

Init ==
    /\ pc = "args"
    /\ args \in SeqsUpTo(ArgTokens, MaxArgs)
    /\ insertionOrder = "AS_READ"
    /\ words = <<>>
    /\ file = <<>>
    /\ maxwords = 0
    /\ before = <<>>
    /\ Fresh

Next ==
    \/ ParseOption
    \/ ParsePositional
    \/ ReadDict
    \/ InsertAsRead
    \/ InsertShuffled
    \/ InsertBalanced
    \/ Median
    \/ ReadCheck
    \/ Lookup

Spec == Init /\ [][Next]_vars

----
\* Properties of the tree and of the insertion strategies.

RECURSIVE Keys(_)
Keys(t) == IF t = <<>> THEN {} ELSE {t[1]} \cup Keys(t[2]) \cup Keys(t[3])

RECURSIVE NodeCount(_)
NodeCount(t) == IF t = <<>> THEN 0 ELSE 1 + NodeCount(t[2]) + NodeCount(t[3])

RECURSIVE IsSearchTree(_)
IsSearchTree(t) ==
    \/ t = <<>>
    \/ /\ \A k \in Keys(t[2]) : StrLess(k, t[1])
       /\ \A k \in Keys(t[3]) : StrLess(t[1], k)
       /\ IsSearchTree(t[2])
       /\ IsSearchTree(t[3])

Distinct(s) == \A i, j \in 1..Len(s) : i # j => s[i] # s[j]

Ascending(s) == \A i \in 1..(Len(s) - 1) : StrLess(s[i], s[i + 1])

RECURSIVE CeilLog2(_)
\* The least h with 2^h >= m, for m >= 1: ceil(log2(m)).
CeilLog2(m) == IF m <= 1 THEN 0 ELSE 1 + CeilLog2((m + 1) \div 2)

\* The number of words of the set S that are less than w.
Rank(S, w) == Cardinality({x \in S : StrLess(x, w)})

\* A strategy has run on the vector `given`.
AfterInsert == pc \in {"stats", "probed", "read_check", "lookup"}

\* C1: after the inserts of a vector into an empty tree, size() is the number of
\* distinct words of the vector, exists(w) holds of exactly the words of the
\* vector, and the tree has one node per distinct word (a repeated word made
\* no node and did not change the count).
C1_SizeAndMembership ==
    AfterInsert =>
        /\ size(dict) = Cardinality(Range(given))
        /\ NodeCount(dict.root) = size(dict)
        /\ \A w \in Range(given) : exists(dict, w)
        /\ \A w \in Words \ Range(given) : ~exists(dict, w)

C1_Witness ==
    /\ pc = "stats"
    /\ Len(given) = 4
    /\ size(dict) = 3
    /\ \E w \in Words : ~exists(dict, w)

\* C2: in every state, every node's left subtree holds only smaller keys and
\* its right subtree only greater ones.
C2_SearchTreeOrder == IsSearchTree(dict.root)

C2_Witness ==
    /\ pc = "stats"
    /\ height(dict) >= 3
    /\ dict.root[2] # <<>>
    /\ dict.root[3] # <<>>
    /\ ~Distinct(given)

\* C3: the balanced strategy on n distinct words leaves a tree of height
\* ceil(log2(n + 1)).
C3_BalancedHeight ==
    (AfterInsert /\ insertionOrder = "BALANCED" /\ Distinct(given)) =>
        height(dict) = CeilLog2(Len(given) + 1)

C3_Witness ==
    /\ pc = "stats"
    /\ insertionOrder = "BALANCED"
    /\ Distinct(given)
    /\ Len(given) = 4
    /\ ~Ascending(given)
    /\ height(dict) = 3

\* C4: the balanced strategy on any vector, repeated words included, leaves a
\* tree of height ceil(log2(size() + 1)).
C4_BalancedHeightOfCount ==
    (AfterInsert /\ insertionOrder = "BALANCED") =>
        height(dict) = CeilLog2(size(dict) + 1)

\* C5: the as-read strategy on an ascending vector of n distinct words leaves
\* a chain: height() = n.
C5_SortedChain ==
    (AfterInsert /\ insertionOrder = "AS_READ" /\ Ascending(given)) =>
        height(dict) = Len(given)

C5_Witness ==
    /\ pc = "stats"
    /\ insertionOrder = "AS_READ"
    /\ Ascending(given)
    /\ Len(given) = 4
    /\ height(dict) = 4

\* One step from the state in which the statistics are due: the tree stays as
\* it is; a walk yields the words inserted, ascending, size() of them, and at
\* position k < size() the key with k smaller keys; main's request gets the
\* key with size()/2 smaller keys unless the tree is empty.
C6_Step ==
    pc = "stats" =>
        /\ dict' = dict
        /\ pc' = "probed" =>
             /\ Ascending(iterated')
             /\ Range(iterated') = Range(given)
             /\ Len(iterated') = size(dict)
             /\ probeK' < size(dict) =>
                  /\ probeElem'.ok
                  /\ probeElem'.value \in Range(given)
                  /\ Rank(Range(given), probeElem'.value) = probeK'
        /\ (pc' # "probed" /\ size(dict) > 0) =>
             /\ pc' = "read_check"
             /\ median'.ok
             /\ median'.value \in Range(given)
             /\ Rank(Range(given), median'.value) = size(dict) \div 2

\* C6: iterating a tree leaves it as it was and yields its keys in ascending
\* order, size() of them; the element k positions after begin(), k < size(),
\* is the key with exactly k smaller keys; main's request for position
\* size()/2 of a tree that is not empty yields the key with size()/2 smaller keys.
C6_OrderedIteration == [][C6_Step]_vars

C6_Witness ==
    /\ pc = "probed"
    /\ Len(iterated) = 4
    /\ ~Ascending(given)
    /\ probeK = 3
    /\ probeElem.ok

\* C7: a request for a position at or past size() ends in the "position out
\* of range" failure and not in a read of a key that is not there, and a run of
\* the driver on a dictionary of no words is not ended by it.
C7_EmptyInputTolerated ==
    /\ (pc \in {"read_check", "lookup", "done"}) => median.ok
    /\ (pc = "exit" /\ err = "position out of range") => ~median.ok
    /\ (pc = "exit" /\ given = <<>>) => err # "position out of range"

\* A value for -n or -m that is a number: digits only, at least one, and no
\* more than size_t holds.
WellFormedNumber(tok) ==
    /\ tok # <<>>
    /\ \A i \in 1..Len(tok) : IsDigit(tok[i])
    /\ Magnitude(tok, 0, Len(tok), 0) <= SizeMax

\* One turn of the option loop on -n or -m whose value is missing or is not a
\* number that size_t holds: the process ends, with a message and a status
\* other than 0, and neither word limit changes.
C9_Step ==
    (/\ pc = "args"
     /\ args # <<>>
     /\ Head(args) \in OptN \cup OptM
     /\ Len(args) = 1 \/ ~WellFormedNumber(args[2]))
    => /\ pc' = "exit"
       /\ exitStatus' # 0
       /\ err' # ""
       /\ maxDictWords' = maxDictWords
       /\ maxCheckWords' = maxCheckWords

\* C9: whenever the value of -n or -m is malformed (missing, not a number, a
\* number followed by other characters, negative, or too large for size_t),
\* main ends with a message and a status other than 0 before any file is read,
\* and the value is never taken as a word limit.
C9_MalformedNumberRejected == [][C9_Step]_vars

\* C10: a strategy hands every index of the vector to dict.insert exactly once
\* and leaves the vector empty, so that the tree holds exactly the words of the
\* vector whatever the strategy; and the number of words main reports after the
\* lookups is the number of words readWords took from the file to check.
C10_EveryWordInsertedOnce ==
    /\ pc = "stats" =>
         /\ words = <<>>
         /\ Len(calls) = Len(given)
         /\ Range(calls) = 0..(Len(given) - 1)
         /\ Keys(dict.root) = Range(given)
         /\ size(dict) = Cardinality(Range(given))
    /\ pc = "done" =>
         /\ before = <<>>
         /\ wordsRead = Len(readWords(<<>>, file, maxwords))

C10_Witness ==
    /\ pc = "done"
    /\ insertionOrder = "BALANCED"
    /\ Len(given) = 3
    /\ calls = <<1, 0, 2>>
    /\ size(dict) = 2
    /\ wordsRead = 2
    /\ inDict = 2

====
